---- MODULE Spec2Model ----
(***************************************************************************)
(* Model of importador_redacoes_streamlit.py: the "Importar" handler that  *)
(* validates an uploaded sheet, clears temp_analise_correcao_humano and    *)
(* inserts the normalised rows in chunks of 500, one transaction each.     *)
(***************************************************************************)
EXTENDS Integers, Sequences, FiniteSets, TLC

\* ------------------------------------------------------------------------
\* Bounds of the model
\* ------------------------------------------------------------------------
\* longest enumerated sheet (rows drawn freely from SourceRows)
MaxRows == 2
\* how many times one session imports its sheet
MaxRuns == 2

\* ------------------------------------------------------------------------
\* Cell values of a DataFrame: missing (NaN/None/NA), str, int, float.
\* A float is kept in tenths (15 is 1.5) so that 1.0 and 1.5 are apart.
\* ------------------------------------------------------------------------
Null == [t |-> "null", s |-> "", n |-> 0]
S(x) == [t |-> "str", s |-> x, n |-> 0]
I(k) == [t |-> "int", s |-> "", n |-> k]
F(k) == [t |-> "float", s |-> "", n |-> k]

IsNa(c) == c.t = "null"

\* ------------------------------------------------------------------------
\* Module constants
\* ------------------------------------------------------------------------
REQUIRED_COLUMNS ==
  << "redacao_id", "arquivo_nome_armazenamento", "tema", "redacao_texto",
     "co_redacao_grade_id" >>

INSERT_COLUMNS ==
  << "redacao_id", "corretor", "situacao_nota_zero",
     "nota_c1", "nota_c2", "nota_c3", "nota_c4", "nota_c5",
     "arquivo_nome_armazenamento", "tema", "redacao_texto",
     "co_redacao_grade_id", "ocr_confianca",
     "arquivo_anonimo_nome_armazenamento" >>

CHUNK == 500

Range(seq) == {seq[i] : i \in DOMAIN seq}

Min(a, b) == IF a < b THEN a ELSE b

\* the sequence f, held as an explicit tuple
Tuple(f) == f \o << >>

\* ------------------------------------------------------------------------
\* pandas conversions used by the sanitising block
\* ------------------------------------------------------------------------
\* float(str) for the strings of the model: the numeric literals parse, any
\* other text does not
ParseNumber(x) ==
  CASE x = "1" -> I(1)
    [] x = "2" -> I(2)
    [] x = "1.5" -> F(15)
    [] OTHER -> Null

\* pd.to_numeric(value, errors="coerce")
ToNumeric(c) ==
  CASE c.t = "int" -> c
    [] c.t = "float" -> c
    [] c.t = "str" -> ParseNumber(c.s)
    [] OTHER -> Null

\* .astype("Int64") raises TypeError on a float that is not a whole number
CastRaises(c) == c.t = "float" /\ c.n % 10 # 0

\* .astype("Int64") of one value that casts safely
AsInt64(c) ==
  CASE c.t = "int" -> c
    [] c.t = "float" -> I(c.n \div 10)
    [] OTHER -> Null

\* str(value) of python
PyStr(c) ==
  CASE c.t = "str" -> c.s
    [] c.t = "int" -> ToString(c.n)
    [] c.t = "float" -> ToString(c.n \div 10) \o "." \o ToString(c.n % 10)
    [] OTHER -> "nan"

\* .fillna("").astype(str)
FillStr(c) == IF IsNa(c) THEN S("") ELSE S(PyStr(c))

\* df.dropna(subset=[col])
DropNa(rows, col) == SelectSeq(rows, LAMBDA r : ~IsNa(r[col]))

\* df[col]
Col(rows, col) == Tuple([i \in DOMAIN rows |-> rows[i][col]])

\* df[col] = vals
SetCol(rows, col, vals) ==
  Tuple([i \in DOMAIN rows |-> [rows[i] EXCEPT ![col] = vals[i]]])

\* pd.to_numeric(vals, errors="coerce").astype("Int64"), when it does not raise
Int64Col(vals) == Tuple([i \in DOMAIN vals |-> AsInt64(ToNumeric(vals[i]))])

\* vals.fillna("").astype(str)
StrCol(vals) == Tuple([i \in DOMAIN vals |-> FillStr(vals[i])])

\* the subsequence of seq at the indices in keep, in order
Pick(seq, keep) ==
  LET indexed == Tuple([i \in DOMAIN seq |-> [i |-> i, r |-> seq[i]]])
      kept == SelectSeq(indexed, LAMBDA x : x.i \in keep)
  IN  Tuple([k \in DOMAIN kept |-> kept[k].r])

\* a drop_duplicates that keeps the first occurrence
DropDuplicatesFirst(rows) ==
  LET keep == {i \in DOMAIN rows :
                 \A j \in 1 .. (i - 1) : rows[j].redacao_id # rows[i].redacao_id}
  IN  Pick(rows, keep)

\* df.drop_duplicates(subset=["redacao_id"], keep="last")
DropDuplicates(rows) ==
  LET keep == {i \in DOMAIN rows :
                 \A j \in (i + 1) .. Len(rows) :
                    rows[j].redacao_id # rows[i].redacao_id}
  IN  Pick(rows, keep)

NotaCols == {"nota_c1", "nota_c2", "nota_c3", "nota_c4", "nota_c5"}
NullCols ==
  {"situacao_nota_zero", "ocr_confianca", "arquivo_anonimo_nome_armazenamento"}

\* fixed fields that give way to a same-named column of the sheet
FixedDefaultsKeepExisting(r) ==
  [c \in (DOMAIN r) \cup {"corretor"} \cup NotaCols \cup NullCols |->
     IF c \in DOMAIN r THEN r[c]
     ELSE IF c = "corretor" THEN S("IA")
     ELSE IF c \in NotaCols THEN I(0)
     ELSE Null]

\* df["corretor"] = "IA"; df["nota_cN"] = 0; the three nullable columns = None
FixedDefaults(r) ==
  [c \in (DOMAIN r) \cup {"corretor"} \cup NotaCols \cup NullCols |->
     IF c = "corretor" THEN S("IA")
     ELSE IF c \in NotaCols THEN I(0)
     ELSE IF c \in NullCols THEN Null
     ELSE r[c]]

\* df[INSERT_COLUMNS]
Project(r) == [c \in Range(INSERT_COLUMNS) |-> r[c]]

\* only the first absent column
MissingColsFirst(cols) ==
  LET all == SelectSeq(REQUIRED_COLUMNS, LAMBDA c : c \notin cols)
  IN  IF all = << >> THEN << >> ELSE << all[1] >>

\* [c for c in REQUIRED_COLUMNS if c not in df.columns]
MissingCols(cols) == SelectSeq(REQUIRED_COLUMNS, LAMBDA c : c \notin cols)

\* rows of the frame after the first dropna
WithId(df) == DropNa(df.rows, "redacao_id")

\* rows after the id coercion and the second dropna
ValidId(df) ==
  LET a == WithId(df)
  IN  DropNa(SetCol(a, "redacao_id", Int64Col(Col(a, "redacao_id"))),
             "redacao_id")

\* the "Int64" cast of redacao_id or of co_redacao_grade_id raises
SanitizeRaises(df) ==
  LET a == WithId(df)
  IN  \/ \E i \in DOMAIN a : CastRaises(ToNumeric(a[i].redacao_id))
      \/ LET b == ValidId(df)
          IN  \E i \in DOMAIN b : CastRaises(ToNumeric(b[i].co_redacao_grade_id))

\* the sanitising block
Sanitize(df) ==
  LET a == ValidId(df)
      b == SetCol(a, "redacao_texto", StrCol(Col(a, "redacao_texto")))
      c == SetCol(b, "tema", StrCol(Col(b, "tema")))
      d == SetCol(c, "arquivo_nome_armazenamento",
                  StrCol(Col(c, "arquivo_nome_armazenamento")))
  IN  SetCol(d, "co_redacao_grade_id",
             Int64Col(Col(d, "co_redacao_grade_id")))

\* df_insert: dedup, fixed fields, projection
BuildInsert(df) ==
  LET d == DropDuplicates(Sanitize(df))
  IN  Tuple([i \in DOMAIN d |-> Project(FixedDefaults(d[i]))])

\* ------------------------------------------------------------------------
\* Inputs: the uploaded sheets and the prior contents of the table
\* ------------------------------------------------------------------------
ReqSet == Range(REQUIRED_COLUMNS)

\* columns of a sheet that the importer does not ask for; three of them
\* carry the name of a destination column
ExtraCols == {"corretor", "nota_c1", "situacao_nota_zero", "observacao"}

SourceRow(id, arq, tema, texto, grade) ==
  [c \in ReqSet \cup ExtraCols |->
     CASE c = "redacao_id" -> id
       [] c = "arquivo_nome_armazenamento" -> arq
       [] c = "tema" -> tema
       [] c = "redacao_texto" -> texto
       [] c = "co_redacao_grade_id" -> grade
       [] c = "corretor" -> S("Humano")
       [] c = "nota_c1" -> I(7)
       [] c = "situacao_nota_zero" -> S("fuga ao tema")
       [] OTHER -> S("obs")]

SourceRows ==
  { SourceRow(I(1), S("a.png"), S("Tema A"), S("Texto A"), I(10)),
    SourceRow(I(1), S("b.png"), S("Tema A"), S("Texto B"), I(10)),
    SourceRow(I(2), S("c.png"), S("Tema B"), S("Texto C"), I(11)),
    SourceRow(Null, S("d.png"), S("Tema B"), S("Texto D"), I(11)),
    SourceRow(S("abc"), S("e.png"), S("Tema A"), S("Texto E"), I(10)),
    SourceRow(S("2"), Null, I(7), Null, S("x")),
    SourceRow(F(10), S("g.png"), S("Tema A"), S("Texto G"), Null),
    SourceRow(F(15), S("h.png"), S("Tema A"), S("Texto H"), I(10)),
    SourceRow(I(2), S("i.png"), S("Tema B"), S("Texto I"), S("1.5")) }

Frame(cols, seq) ==
  [cols |-> cols,
   rows |-> Tuple([i \in DOMAIN seq |-> [c \in cols |-> seq[i][c]]])]

SeqsUpTo(n) == UNION {[1 .. k -> SourceRows] : k \in 0 .. n}

\* a three-row sheet with ids 1, 1, 2
ScenarioRows ==
  << SourceRow(I(1), S("a.png"), S("Tema A"), S("Texto A"), I(10)),
     SourceRow(I(1), S("b.png"), S("Tema A"), S("Texto B"), I(10)),
     SourceRow(I(2), S("c.png"), S("Tema B"), S("Texto C"), I(11)) >>

\* a long sheet of n distinct ids
LongRows(n) ==
  [i \in 1 .. n |-> SourceRow(I(i), S("f.png"), S("Tema A"), S("Texto A"), I(10))]

LongSizes == {CHUNK, CHUNK + 1, 2 * CHUNK + 200}

Files ==
  {Frame(ReqSet, seq) : seq \in SeqsUpTo(MaxRows)}
    \cup {Frame(ReqSet \cup ExtraCols, seq) : seq \in SeqsUpTo(MaxRows)}
    \cup {Frame(cs, seq) : cs \in (SUBSET ReqSet) \ {ReqSet},
                           seq \in {<< >>, SubSeq(ScenarioRows, 1, 1)}}
    \cup {Frame(ReqSet, ScenarioRows)}
    \cup {Frame(ReqSet, LongRows(n)) : n \in LongSizes}

\* two sessions importing at once: the first a short or a two-chunk sheet,
\* the second a short sheet
RaceFiles ==
  [first : {Frame(ReqSet, SubSeq(ScenarioRows, 1, 2)),
            Frame(ReqSet, LongRows(CHUNK + 1))},
   second : {Frame(ReqSet, SubSeq(ScenarioRows, 3, 3))}]

\* a row already in the table, graded by a human
OldRow(id) ==
  [c \in Range(INSERT_COLUMNS) |->
     CASE c = "redacao_id" -> I(id)
       [] c = "corretor" -> S("Humano")
       [] c \in NotaCols -> I(120)
       [] c \in {"arquivo_nome_armazenamento", "tema", "redacao_texto"} -> S("antigo")
       [] c = "co_redacao_grade_id" -> I(10)
       [] OTHER -> Null]

PriorTables == { << >>, << OldRow(1) >>, << OldRow(1), OldRow(9) >> }

\* ------------------------------------------------------------------------
\* State
\* ------------------------------------------------------------------------
VARIABLES
  table,      \* rows of temp_analise_correcao_humano, in insertion order
  pc,         \* per session: where the script run is
  upload,     \* per session: the DataFrame read from uploaded_file
  df_insert,  \* per session: the frame to insert
  total,      \* per session: len(df_insert)
  start,      \* per session: the loop variable of the insert loop
  inserted,   \* per session: the counter of the insert loop
  message,    \* per session: the st.error / st.warning / st.success shown
  bar,        \* per session: the percentage the progress bar shows
  progress,   \* per session: the updates of the bar made by the loop
  runs,       \* per session: presses of the button so far
  table0,     \* history: the table when this run began
  cleared,    \* history: how the clearing transaction of this run ended
  attempts,   \* history: INSERT statements executed in this run
  loads       \* history: the table at each completed import of the session

vars ==
  << table, pc, upload, df_insert, total, start, inserted, message, bar,
     progress, runs, table0, cleared, attempts, loads >>

NoMessage == [kind |-> "none", cols |-> << >>, count |-> << >>]

\* st.error(f"A planilha está sem as colunas obrigatórias: {', '.join(...)}")
MissingColumnsError(missing) ==
  [kind |-> "MissingColumnsError", cols |-> missing, count |-> << >>]
\* the uncaught TypeError of the cast
UncaughtTypeError == [kind |-> "TypeError", cols |-> << >>, count |-> << >>]
\* st.warning("Nada para importar após validação.")
NothingToImport == [kind |-> "NothingToImport", cols |-> << >>, count |-> << >>]
\* st.error("Falha ao limpar a tabela de destino. ...")
ClearFailedError == [kind |-> "ClearFailedError", cols |-> << >>, count |-> << >>]
\* st.error("Falha ao inserir registros. ...")
InsertFailedError == [kind |-> "InsertFailedError", cols |-> << >>, count |-> << >>]
\* st.success(f"Importação concluída: {inserted} registro(s) inserido(s).")
Success(n) == [kind |-> "Success", cols |-> << >>, count |-> << n >>]

\* the single operator of the page
Operator == {1}

\* two browser sessions
Racers == {1, 2}

InitWith(sessions, uploads) ==
  /\ table \in PriorTables
  /\ pc = [p \in sessions |-> "Idle"]
  /\ upload \in uploads
  /\ df_insert = [p \in sessions |-> << >>]
  /\ total = [p \in sessions |-> 0]
  /\ start = [p \in sessions |-> 0]
  /\ inserted = [p \in sessions |-> 0]
  /\ message = [p \in sessions |-> NoMessage]
  /\ bar = [p \in sessions |-> << >>]
  /\ progress = [p \in sessions |-> << >>]
  /\ runs = [p \in sessions |-> 1]
  /\ table0 = [p \in sessions |-> table]
  /\ cleared = [p \in sessions |-> "none"]
  /\ attempts = [p \in sessions |-> 0]
  /\ loads = [p \in sessions |-> << >>]

\* one operator at the page
Init == InitWith(Operator, [Operator -> Files])

\* two browser sessions on the same database
InitRace ==
  InitWith(Racers, {[p \in Racers |-> IF p = 1 THEN f.first ELSE f.second] :
                      f \in RaceFiles})

\* ------------------------------------------------------------------------
\* The handler of the button, step by step
\* ------------------------------------------------------------------------
\* column check, sanitising, dedup, fixed fields, projection, count
Validate(p) ==
  /\ pc[p] = "Idle"
  /\ table0' = [table0 EXCEPT ![p] = table]
  /\ LET df == upload[p]
         missing_cols == MissingCols(df.cols)
     IN  IF missing_cols # << >>
         THEN /\ pc' = [pc EXCEPT ![p] = "Stopped"]
              /\ message' = [message EXCEPT ![p] = MissingColumnsError(missing_cols)]
              /\ UNCHANGED << df_insert, total >>
         ELSE IF SanitizeRaises(df)
         THEN /\ pc' = [pc EXCEPT ![p] = "Crashed"]
              /\ message' = [message EXCEPT ![p] = UncaughtTypeError]
              /\ UNCHANGED << df_insert, total >>
         ELSE LET b == BuildInsert(df)
              IN  /\ df_insert' = [df_insert EXCEPT ![p] = b]
                  /\ total' = [total EXCEPT ![p] = Len(b)]
                  /\ IF Len(b) = 0
                     THEN /\ pc' = [pc EXCEPT ![p] = "Stopped"]
                          /\ message' = [message EXCEPT ![p] = NothingToImport]
                     ELSE /\ pc' = [pc EXCEPT ![p] = "Clearing"]
                          /\ UNCHANGED message
  /\ UNCHANGED << table, upload, start, inserted, bar, progress, runs,
                  cleared, attempts, loads >>

\* a clear that leaves the rows where they are
TruncateKeeps(tbl) == tbl

\* TRUNCATE TABLE temp_analise_correcao_humano
Truncate(tbl) == << >>

\* a DELETE that spares the newest row
DeleteSparesLast(tbl) == IF tbl = << >> THEN << >> ELSE << tbl[Len(tbl)] >>

\* DELETE FROM temp_analise_correcao_humano
DeleteAll(tbl) == << >>

\* a failed clear that goes on to the insert loop
ClearFailedGoesOn == "Inserting"

\* where the handler is after the except branch of the clear: st.stop()
ClearFailedPc == "Failed"

ClearSucceeds(p, tbl, how) ==
  /\ table' = tbl
  /\ cleared' = [cleared EXCEPT ![p] = how]
  /\ pc' = [pc EXCEPT ![p] = "Inserting"]
  /\ bar' = [bar EXCEPT ![p] = << 0 >>]
  /\ start' = [start EXCEPT ![p] = 0]
  /\ inserted' = [inserted EXCEPT ![p] = 0]
  /\ UNCHANGED message

ClearFails(p, tbl, how) ==
  /\ table' = tbl
  /\ cleared' = [cleared EXCEPT ![p] = how]
  /\ pc' = [pc EXCEPT ![p] = ClearFailedPc]
  /\ message' = [message EXCEPT ![p] = ClearFailedError]
  /\ UNCHANGED << bar, start, inserted >>

\* the clearing transaction: TRUNCATE, else DELETE, then COMMIT
Clear(p) ==
  /\ pc[p] = "Clearing"
  /\ \/ \* TRUNCATE and the commit succeed
        ClearSucceeds(p, Truncate(table), "truncate")
     \/ \* TRUNCATE is refused, DELETE and the commit succeed
        ClearSucceeds(p, DeleteAll(table), "delete")
     \/ \* TRUNCATE is refused and DELETE or its commit fails: rolled back
        ClearFails(p, table, "failed")
     \/ \* TRUNCATE succeeds (MySQL commits it implicitly), the commit fails
        ClearFails(p, Truncate(table), "failed after truncate")
  /\ UNCHANGED << upload, df_insert, total, progress, runs, table0,
                  attempts, loads >>

\* an end of chunk that is not capped by the length
ChunkEndUncapped(s, n) == s + CHUNK

\* end = min(start + CHUNK, total)
ChunkEnd(s, n) == Min(s + CHUNK, n)

\* df_insert.iloc[a:b]
ILoc(frame, a, b) ==
  LET hi == Min(b, Len(frame))
  IN  IF hi <= a THEN << >> ELSE SubSeq(frame, a + 1, hi)

\* int(round(inserted * 100 / total)): round half to even
Pct(ins, n) ==
  LET q == (ins * 100) \div n
      r == (ins * 100) % n
  IN  IF 2 * r < n THEN q
      ELSE IF 2 * r > n THEN q + 1
      ELSE IF q % 2 = 0 THEN q ELSE q + 1

\* a failed chunk that leaves its first row behind
RollbackLeavesRow(tbl, payload) == tbl \o SubSeq(payload, 1, 1)

\* the table after the transaction of a chunk is rolled back
Rollback(tbl, payload) == tbl

\* the table after the transaction of a chunk commits
Commit(tbl, payload) == tbl \o payload

\* one iteration of the insert loop
InsertChunk(p) ==
  /\ pc[p] = "Inserting"
  /\ start[p] < total[p]
  /\ LET end == ChunkEnd(start[p], total[p])
         payload == ILoc(df_insert[p], start[p], end)
     IN  /\ attempts' = [attempts EXCEPT ![p] = @ + 1]
         /\ \/ \* the transaction commits: counter and bar are updated
               /\ table' = Commit(table, payload)
               /\ inserted' = [inserted EXCEPT ![p] = end]
               /\ start' = [start EXCEPT ![p] = @ + CHUNK]
               /\ bar' = [bar EXCEPT ![p] = << Pct(end, total[p]) >>]
               /\ progress' = [progress EXCEPT ![p] =
                    Append(@, [inserted |-> end, total |-> total[p],
                               pct |-> Pct(end, total[p])])]
               /\ UNCHANGED << pc, message >>
            \/ \* SQLAlchemyError: rolled back, st.error, st.stop()
               /\ table' = Rollback(table, payload)
               /\ pc' = [pc EXCEPT ![p] = "Failed"]
               /\ message' = [message EXCEPT ![p] = InsertFailedError]
               /\ UNCHANGED << inserted, start, bar, progress >>
  /\ UNCHANGED << upload, df_insert, total, runs, table0, cleared, loads >>

\* the loop is exhausted: st.success
Finish(p) ==
  /\ pc[p] = "Inserting"
  /\ start[p] >= total[p]
  /\ pc' = [pc EXCEPT ![p] = "Done"]
  /\ message' = [message EXCEPT ![p] = Success(inserted[p])]
  /\ loads' = [loads EXCEPT ![p] = Append(@, table)]
  /\ UNCHANGED << table, upload, df_insert, total, start, inserted, bar,
                  progress, runs, table0, cleared, attempts >>

Ended(p) == pc[p] \in {"Done", "Failed", "Stopped", "Crashed"}

\* the same sheet is imported again: the script runs from the top
Reimport(p) ==
  /\ Ended(p)
  /\ runs[p] < MaxRuns
  /\ runs' = [runs EXCEPT ![p] = @ + 1]
  /\ pc' = [pc EXCEPT ![p] = "Idle"]
  /\ df_insert' = [df_insert EXCEPT ![p] = << >>]
  /\ total' = [total EXCEPT ![p] = 0]
  /\ start' = [start EXCEPT ![p] = 0]
  /\ inserted' = [inserted EXCEPT ![p] = 0]
  /\ message' = [message EXCEPT ![p] = NoMessage]
  /\ bar' = [bar EXCEPT ![p] = << >>]
  /\ progress' = [progress EXCEPT ![p] = << >>]
  /\ cleared' = [cleared EXCEPT ![p] = "none"]
  /\ attempts' = [attempts EXCEPT ![p] = 0]
  /\ UNCHANGED << table, upload, table0, loads >>

Next ==
  \E p \in Operator :
    \/ Validate(p)
    \/ Clear(p)
    \/ InsertChunk(p)
    \/ Finish(p)
    \/ Reimport(p)

\* each of the two sessions presses the button once
NextRace ==
  \E p \in Racers :
    \/ Validate(p)
    \/ Clear(p)
    \/ InsertChunk(p)
    \/ Finish(p)

\* one import at a time, as the page is meant to be used
Spec == Init /\ [][Next]_vars

\* two imports with no serialisation by the caller
SpecRace == InitRace /\ [][NextRace]_vars

\* ------------------------------------------------------------------------
\* Properties
\* ------------------------------------------------------------------------
InsertFailed(p) == pc[p] = "Failed" /\ message[p].kind = "InsertFailedError"

\* the run got past the clearing transaction
PastClear(p) == pc[p] \in {"Inserting", "Done"} \/ InsertFailed(p)

\* C1: a clearing transaction that fails ends the run in Failed with
\* ClearFailedError and no INSERT is executed in that run; any INSERT that is
\* executed comes after a clear that succeeded.
C1_NoInsertWithoutClear ==
  \A p \in DOMAIN pc :
    /\ cleared[p] \in {"failed", "failed after truncate"} =>
         /\ pc[p] = "Failed"
         /\ message[p] = ClearFailedError
         /\ attempts[p] = 0
    /\ attempts[p] > 0 => cleared[p] \in {"truncate", "delete"}
    /\ pc[p] = "Inserting" => cleared[p] \in {"truncate", "delete"}

C1_Witness ==
  \E p \in DOMAIN pc :
    /\ cleared[p] = "failed"
    /\ pc[p] = "Failed"
    /\ table # << >>
    /\ total[p] > 0

\* C2: when the INSERT of chunk k fails, the table holds exactly the rows of
\* chunks 1..k-1, the first 500*(k-1) rows of the batch, and nothing of
\* chunk k or later.
C2_ChunkAtomicity ==
  \A p \in DOMAIN pc :
    InsertFailed(p) =>
      /\ CHUNK * (attempts[p] - 1) < total[p]
      /\ table = SubSeq(df_insert[p], 1, CHUNK * (attempts[p] - 1))

\* 1200 rows, the third chunk fails, 1000 rows are in the table
C2_Witness ==
  \E p \in DOMAIN pc :
    /\ InsertFailed(p)
    /\ total[p] = 2 * CHUNK + 200
    /\ attempts[p] = 3
    /\ Len(table) = 2 * CHUNK

\* C3: when the INSERT of a chunk fails the loader stops at once and the
\* error it reports carries the number of rows inserted before the failure,
\* which is the number of rows of the batch in the table.
C3_FailureCarriesCount ==
  \A p \in DOMAIN pc :
    InsertFailed(p) =>
      /\ inserted[p] = Len(table)
      /\ message[p].count = << Len(table) >>

\* C4: a completed import leaves exactly the rows of the batch in the table,
\* whatever was there before, and importing the same batch again leaves the
\* same contents as the first import did.
C4_IdempotentReimport ==
  \A p \in DOMAIN pc :
    pc[p] = "Done" =>
      /\ table = df_insert[p]
      /\ \A i \in DOMAIN loads[p] : loads[p][i] = table

\* the second completed import of a non-empty batch
C4_Witness ==
  \E p \in DOMAIN pc :
    /\ pc[p] = "Done"
    /\ Len(loads[p]) = 2
    /\ table0[p] # << >>
    /\ table # << >>

\* the id a row of the sheet ends up with: Null when the row is dropped
IdOf(r) == AsInt64(ToNumeric(r.redacao_id))

\* batch holds one row per valid id of rows, with the fields of the last
\* row of that id
KeepsLast(rows, batch) ==
  LET ids == Tuple([j \in DOMAIN rows |-> IdOf(rows[j])])
      valid == Range(ids) \ {Null}
      bids == Tuple([i \in DOMAIN batch |-> batch[i].redacao_id])
      IsLast(j) == \A j2 \in (j + 1) .. Len(rows) : ids[j2] # ids[j]
      LastOf(k) == CHOOSE j \in DOMAIN rows : ids[j] = k /\ IsLast(j)
  IN  /\ Range(bids) = valid
      /\ Len(batch) = Cardinality(valid)
      /\ \A i \in DOMAIN batch :
           LET src == rows[LastOf(bids[i])]
           IN  /\ batch[i].redacao_texto = FillStr(src.redacao_texto)
               /\ batch[i].arquivo_nome_armazenamento =
                    FillStr(src.arquivo_nome_armazenamento)
               /\ batch[i].tema = FillStr(src.tema)
               /\ batch[i].co_redacao_grade_id =
                    AsInt64(ToNumeric(src.co_redacao_grade_id))

\* validation of this run has just ended with a batch, empty or not
BatchProduced(p) ==
  pc[p] = "Clearing" \/ (pc[p] = "Stopped" /\ message[p] = NothingToImport)

\* C5: the batch holds exactly one row for each valid redacao_id of the
\* sheet, with redacao_texto, arquivo_nome_armazenamento, tema and
\* co_redacao_grade_id of the last row of the sheet with that id (as
\* normalised); so does the table after a completed import.
C5_DedupKeepsLast ==
  \A p \in DOMAIN pc :
    /\ BatchProduced(p) => KeepsLast(upload[p].rows, df_insert[p])
    /\ pc[p] = "Done" => KeepsLast(upload[p].rows, table)

\* ids 1, 1, 2: the table holds id 1 with "Texto B"/"b.png" and id 2
C5_Witness ==
  \E p \in DOMAIN pc :
    /\ pc[p] = "Done"
    /\ Len(upload[p].rows) = 3
    /\ Len(table) = 2
    /\ table[1].redacao_id = I(1)
    /\ table[1].redacao_texto = S("Texto B")
    /\ table[1].arquivo_nome_armazenamento = S("b.png")
    /\ table[2].redacao_id = I(2)

\* C6: a sheet without some required column stops with MissingColumnsError
\* naming exactly the absent required columns, and neither the clear nor an
\* INSERT is executed: the table is as it was.
C6_RequiredColumnGate ==
  \A p \in DOMAIN pc :
    (pc[p] # "Idle" /\ ~(ReqSet \subseteq upload[p].cols)) =>
      /\ pc[p] = "Stopped"
      /\ message[p].kind = "MissingColumnsError"
      /\ Range(message[p].cols) = ReqSet \ upload[p].cols
      /\ Len(message[p].cols) = Cardinality(ReqSet \ upload[p].cols)
      /\ cleared[p] = "none"
      /\ attempts[p] = 0
      /\ table = table0[p]

\* three columns are absent and all three are named
C6_Witness ==
  \E p \in DOMAIN pc :
    /\ pc[p] = "Stopped"
    /\ Cardinality(ReqSet \ upload[p].cols) = 3
    /\ Len(message[p].cols) = 3
    /\ table # << >>

\* an id that can be coerced to an integer
CoercibleId(c) ==
  LET v == ToNumeric(c)
  IN  v.t = "int" \/ (v.t = "float" /\ v.n % 10 = 0)

\* C7: a sheet with all required columns in which every redacao_id is blank
\* or invalid gives an empty batch, reported as "nothing to import", and the
\* run stops before the clear: the table is as it was.
C7_EmptyAfterValidation ==
  \A p \in DOMAIN pc :
    ( /\ pc[p] # "Idle"
      /\ ReqSet \subseteq upload[p].cols
      /\ \A j \in DOMAIN upload[p].rows :
            ~CoercibleId(upload[p].rows[j].redacao_id) ) =>
      /\ pc[p] = "Stopped"
      /\ message[p] = NothingToImport
      /\ df_insert[p] = << >>
      /\ cleared[p] = "none"
      /\ attempts[p] = 0
      /\ table = table0[p]

\* C8: the loop reports progress once per committed chunk, as (inserted,
\* total) with inserted the number of rows of the batch in the table; the
\* values increase strictly and never pass total; a completed import has
\* inserted = total and reports it.
C8_Progress ==
  \A p \in DOMAIN pc :
    PastClear(p) =>
      LET pr == progress[p]
      IN  /\ Len(pr) = attempts[p] - (IF InsertFailed(p) THEN 1 ELSE 0)
          /\ \A i \in DOMAIN pr :
               /\ pr[i].total = total[p]
               /\ pr[i].inserted <= total[p]
               /\ pr[i].inserted > 0
               /\ i > 1 => pr[i - 1].inserted < pr[i].inserted
          /\ inserted[p] = (IF pr = << >> THEN 0 ELSE pr[Len(pr)].inserted)
          /\ inserted[p] = Len(table)
          /\ pc[p] = "Done" =>
               /\ inserted[p] = total[p]
               /\ message[p] = Success(total[p])

\* three chunks of a 1200-row batch, the last report is (1200, 1200)
C8_Witness ==
  \E p \in DOMAIN pc :
    /\ pc[p] = "Done"
    /\ Len(progress[p]) = 3
    /\ progress[p][1].inserted = CHUNK
    /\ progress[p][3].inserted = 2 * CHUNK + 200
    /\ progress[p][3].pct = 100

HasDefaults(r) ==
  /\ r.corretor = S("IA")
  /\ \A c \in NotaCols : r[c] = I(0)
  /\ \A c \in NullCols : r[c] = Null

\* C9: every row of the batch, and so every row the import puts in the
\* table, has corretor "IA", nota_c1..nota_c5 0 and the three nullable
\* columns null, whatever same-named columns the sheet has.
C9_FixedDefaults ==
  \A p \in DOMAIN pc :
    /\ \A i \in DOMAIN df_insert[p] : HasDefaults(df_insert[p][i])
    /\ PastClear(p) => \A i \in DOMAIN table : HasDefaults(table[i])

\* the sheet has its own corretor, nota_c1 and situacao_nota_zero columns
C9_Witness ==
  \E p \in DOMAIN pc :
    /\ pc[p] = "Done"
    /\ {"corretor", "nota_c1", "situacao_nota_zero"} \subseteq upload[p].cols
    /\ table # << >>
    /\ upload[p].rows[1].corretor = S("Humano")

\* C10: nothing keeps a session from clearing while another one inserts: a
\* clear that succeeds empties the table, rows committed by the other session
\* included, and leaves the other session where it is; a session that ends
\* in Done reports its whole batch as inserted.
C10_ClearErasesOthers ==
  [][\A q \in Racers :
       /\ pc[q] = "Clearing" => ENABLED Clear(q)
       /\ (pc[q] = "Clearing" /\ pc'[q] = "Inserting") =>
            /\ table' = << >>
            /\ \A p \in Racers \ {q} :
                 pc'[p] = pc[p] /\ inserted'[p] = inserted[p]
       /\ pc'[q] = "Done" => message'[q] = Success(total[q])]_vars

\* the first session is Done, reports all of its rows, and a row of its
\* batch is not in the table
C10_Witness ==
  /\ pc[1] = "Done"
  /\ message[1] = Success(total[1])
  /\ inserted[1] = total[1]
  /\ \E i \in DOMAIN df_insert[1] : \A k \in DOMAIN table : table[k] # df_insert[1][i]

====
